---- MODULE Spec2Model ----
(***************************************************************************)
(* Model of src/main.py: the container analyzer's main() dispatch and its  *)
(* two extractors, extract_zip and extract_ole.                            *)
(*                                                                         *)
(* Strings are sequences of one-character strings, so that                 *)
(* os.path.basename, str.replace, str.join and os.path.join are computed   *)
(* character by character as Python (POSIX) computes them.  The container  *)
(* libraries (zipfile, olefile) and the file system are the environment:   *)
(* every call into them that can fail has its failure as an outcome.       *)
(***************************************************************************)
EXTENDS Naturals, Sequences, FiniteSets, TLC

VARIABLES
    file,         \* the input path: [exists, isZip, header]
    list_only,    \* args.list
    verbose,      \* args.verbose
    pre,          \* the output directory before the run: [dir, fs]
    outDirExists, \* whether output_dir exists
    fs,           \* files on disk: a set of <<path, bytes>>, one per path
    pc,           \* position of the run in main / extract_zip / extract_ole
    checks,       \* the format checks main has made, in order
    handler,      \* the extractor main called: "none", "zip", "ole"
    entries,      \* the directory the opened container returned
    i,            \* loop position in the directory (1-based)
    results,      \* one record per loop iteration: [idx, res, path]
    log,          \* the logging records emitted, in order
    oleHandle,    \* the OleFileIO object: "none", "open", "closed"
    ret,          \* the extractor's return value: "none", "true", "false"
    raised        \* an exception left main() uncaught

vars == <<file, list_only, verbose, pre, outDirExists, fs, pc, checks, handler,
          entries, i, results, log, oleHandle, ret, raised>>

----------------------------------------------------------------------------
(* Bounds *)

MaxEntries == 2

----------------------------------------------------------------------------
(* Strings *)

Slash == "/"

RECURSIVE LastIndexOf(_, _, _)
LastIndexOf(s, ch, k) ==
    IF k = 0 THEN 0
    ELSE IF s[k] = ch THEN k ELSE LastIndexOf(s, ch, k - 1)

\* os.path.basename (posixpath): everything after the last "/"
Basename(p) == SubSeq(p, LastIndexOf(p, Slash, Len(p)) + 1, Len(p))

\* str.replace(old, new) for one-character old and new
RECURSIVE Replace(_, _, _)
Replace(s, old, new) ==
    IF s = <<>> THEN <<>>
    ELSE <<IF Head(s) = old THEN new ELSE Head(s)>> \o Replace(Tail(s), old, new)

\* sep.join(parts)
RECURSIVE StrJoin(_, _)
StrJoin(sep, parts) ==
    IF parts = <<>> THEN <<>>
    ELSE IF Len(parts) = 1 THEN parts[1]
    ELSE parts[1] \o sep \o StrJoin(sep, Tail(parts))

\* os.path.join(a, b) (posixpath)
PathJoin(a, b) ==
    IF b # <<>> /\ b[1] = Slash THEN b
    ELSE IF a = <<>> \/ a[Len(a)] = Slash THEN a \o b
    ELSE a \o <<Slash>> \o b

SeqsUpTo(S, n) == UNION {[1..k -> S] : k \in 0..n}

----------------------------------------------------------------------------
(* Inputs: the file at filepath, the output directory, the directories     *)
(* the container libraries return.                                         *)

\* output_dir, as given on the command line
OutDir == <<"o", "u", "t">>

\* b'PK\x03\x04'
PKMagic == <<80, 75, 3, 4>>

\* olefile.MAGIC
OleMagic == <<208, 207, 17, 224, 161, 177, 26, 225>>

\* The first bytes of the input file: a 2-byte file, the ZIP local header
\* magic followed by more bytes, the OLE magic, a PDF.
Headers ==
    { <<80, 75>>, <<80, 75, 3, 4, 20, 0>>, OleMagic, <<37, 80, 68, 70>> }

\* f.read(n) on a file whose first bytes are h
ReadBytes(h, n) == SubSeq(h, 1, IF Len(h) < n THEN Len(h) ELSE n)

\* olefile.isOleFile: the first len(MAGIC) bytes equal MAGIC
IsOleFile(h) == ReadBytes(h, Len(OleMagic)) = OleMagic

\* file_header == b'PK\x03\x04'
IsZipMagic(h) == ReadBytes(h, 4) = PKMagic

\* The entries of a ZIP central directory: the name, the bytes reading the
\* entry yields, the size the directory declares (file_info.file_size).  A
\* plain name with one byte, two bytes, no bytes, and a declared size that
\* is not the stored one; an absolute path with the same final segment; a
\* directory entry as archivers write it; ".."; the two names of the
\* path-traversal scenario (traversal, nested directories).
ZipInfos ==
    { [name |-> <<"a">>, data |-> <<1>>, size |-> 1],
      [name |-> <<"a">>, data |-> <<2, 1>>, size |-> 2],
      [name |-> <<"a">>, data |-> <<>>, size |-> 0],
      [name |-> <<"a">>, data |-> <<1>>, size |-> 5],
      [name |-> <<"/", "a">>, data |-> <<2, 1>>, size |-> 2],
      [name |-> <<"d", "/">>, data |-> <<>>, size |-> 0],
      [name |-> <<".", ".">>, data |-> <<1>>, size |-> 1],
      [name |-> <<".", ".", "/", ".", ".", "/", "e", "t", "c", "/",
                  "p", "a", "s", "s", "w", "d">>,
       data |-> <<1>>, size |-> 1],
      [name |-> <<"a", "/", "b", "/", ".", ".", "/", ".", ".", "/", "c">>,
       data |-> <<2, 1>>, size |-> 2] }

\* The streams OleFileIO.listdir() names (lists of name components) and
\* the bytes openstream(...).read() yields.  A single stream with one byte
\* and with none, a stream in a storage, a stream whose name holds "_", a
\* name with an empty component, and ["Root Entry", "Data"].
OleStreams ==
    { [name |-> << <<"a">> >>, data |-> <<1>>],
      [name |-> << <<"a">> >>, data |-> <<>>],
      [name |-> << <<"d">>, <<"a">> >>, data |-> <<2, 1>>],
      [name |-> << <<"d", "_", "a">> >>, data |-> <<1>>],
      [name |-> << <<"d">>, <<>> >>, data |-> <<1>>],
      [name |-> << <<"R", "o", "o", "t", " ", "E", "n", "t", "r", "y">>,
                   <<"D", "a", "t", "a">> >>,
       data |-> <<2, 1>>] }

ZipDirs == SeqsUpTo(ZipInfos, MaxEntries)

OleDirs == SeqsUpTo(OleStreams, MaxEntries)

\* The output directory before the run: absent, or holding a file
PreStates ==
    { [dir |-> FALSE, fs |-> {}],
      [dir |-> TRUE,  fs |-> {<<PathJoin(OutDir, <<"a">>), <<9>>>>}] }

\* The input path: absent; a file is_zipfile rejects, with any of the
\* headers; a file is_zipfile accepts (it looks for the end-of-central-
\* directory record, at the end of the file), starting with the ZIP magic
\* or with the OLE magic.
Files ==
    { [exists |-> FALSE, isZip |-> FALSE, header |-> <<>>] }
    \cup [exists : {TRUE}, isZip : {FALSE}, header : Headers]
    \cup [exists : {TRUE}, isZip : {TRUE},
          header : {<<80, 75, 3, 4, 20, 0>>, OleMagic}]

----------------------------------------------------------------------------
(* Logging *)

Rec(level, kind, subject) == <<level, kind, subject>>

Logged(kind) == \E k \in 1..Len(log) : log[k][2] = kind

ErrorLogged == \E k \in 1..Len(log) : log[k][1] = "ERROR"

----------------------------------------------------------------------------
(* State after argument parsing *)

Init ==
    /\ file \in Files
    /\ list_only \in BOOLEAN
    /\ verbose \in BOOLEAN
    /\ pre \in PreStates
    /\ outDirExists = pre.dir
    /\ fs = pre.fs
    /\ pc = "start"
    /\ checks = <<>>
    /\ handler = "none"
    /\ entries = <<>>
    /\ i = 1
    /\ results = <<>>
    /\ log = (IF verbose THEN <<Rec("DEBUG", "Verbose", <<>>)>> ELSE <<>>)
    /\ oleHandle = "none"
    /\ ret = "none"
    /\ raised = FALSE

----------------------------------------------------------------------------
(* main() *)

\* if not pathlib.Path(filepath).exists(): log error, return.  exists()
\* swallows only the "no such path" errors of stat; any other OSError (a
\* name longer than NAME_MAX, a parent directory without search permission)
\* leaves main uncaught, before anything is logged
CheckExists ==
    /\ pc = "start"
    /\ checks' = Append(checks, "exists")
    /\ \E outcome \in {"ok", "oserror"} :
         IF outcome = "oserror"
         THEN /\ pc' = "done"
              /\ raised' = TRUE
              /\ log' = log
         ELSE /\ raised' = raised
              /\ IF file.exists
                 THEN /\ pc' = "mkdir"
                      /\ log' = log
                 ELSE /\ pc' = "done"
                      /\ log' = Append(log, Rec("ERROR", "NotFound", <<>>))
    /\ UNCHANGED <<file, list_only, verbose, pre, outDirExists, fs, handler, entries,
                   i, results, oleHandle, ret>>

\* pathlib.Path(output_dir).mkdir(parents=True, exist_ok=True); an OSError
\* (output_dir is a file, no permission) is not caught
MkOutputDir ==
    /\ pc = "mkdir"
    /\ \E outcome \in {"ok", "oserror"} :
         IF outcome = "ok"
         THEN /\ outDirExists' = TRUE
              /\ pc' = "detect_zip"
              /\ raised' = raised
         ELSE /\ outDirExists' = outDirExists
              /\ pc' = "done"
              /\ raised' = TRUE
    /\ UNCHANGED <<file, list_only, verbose, pre, fs, checks, handler, entries, i,
                   results, log, oleHandle, ret>>

\* DetectZip with the two branches of the if/elif swapped: OLE first
DetectZip_oleFirst ==
    /\ pc = "detect_zip"
    /\ IF IsOleFile(file.header)
       THEN /\ checks' = Append(checks, "ole")
            /\ handler' = "ole"
            /\ pc' = "ole_check"
       ELSE /\ checks' = Append(Append(checks, "ole"), "zip")
            /\ IF file.isZip
               THEN /\ handler' = "zip"
                    /\ pc' = "zip_open"
               ELSE /\ handler' = handler
                    /\ pc' = "probe"
    /\ UNCHANGED <<file, list_only, verbose, pre, outDirExists, fs, entries, i,
                   results, log, oleHandle, ret, raised>>

\* if zipfile.is_zipfile(filepath): extract_zip(...).  is_zipfile catches
\* OSError only: the BadZipFile it raises on an end-of-central-directory
\* locator that names several disks leaves main uncaught
DetectZip ==
    /\ pc = "detect_zip"
    /\ checks' = Append(checks, "zip")
    /\ \E outcome \in {"ok", "badzip"} :
         IF outcome = "badzip"
         THEN /\ pc' = "done"
              /\ raised' = TRUE
              /\ handler' = handler
         ELSE /\ raised' = raised
              /\ IF file.isZip
                 THEN /\ handler' = "zip"
                      /\ pc' = "zip_open"
                 ELSE /\ handler' = handler
                      /\ pc' = "detect_ole"
    /\ UNCHANGED <<file, list_only, verbose, pre, outDirExists, fs, entries, i,
                   results, log, oleHandle, ret>>

\* elif olefile.isOleFile(filepath): extract_ole(...); isOleFile opens the
\* path itself and an OSError (a directory, an unreadable file) is not caught
DetectOle ==
    /\ pc = "detect_ole"
    /\ checks' = Append(checks, "ole")
    /\ \E outcome \in {"ok", "oserror"} :
         IF outcome = "oserror"
         THEN /\ pc' = "done"
              /\ raised' = TRUE
              /\ handler' = handler
         ELSE /\ raised' = raised
              /\ IF IsOleFile(file.header)
                 THEN /\ handler' = "ole"
                      /\ pc' = "ole_check"
                 ELSE /\ handler' = handler
                      /\ pc' = "probe"
    /\ UNCHANGED <<file, list_only, verbose, pre, outDirExists, fs, entries, i,
                   results, log, oleHandle, ret>>

\* else: warn, read the first 4 bytes, compare with the ZIP magic
Probe ==
    /\ pc = "probe"
    /\ checks' = Append(checks, "probe")
    /\ \E outcome \in {"ok", "error"} :
         LET warned == Append(log, Rec("WARNING", "Unsupported", <<>>)) IN
         IF outcome = "error"
         THEN /\ log' = Append(warned, Rec("ERROR", "ProbeError", <<>>))
              /\ pc' = "done"
              /\ handler' = handler
         ELSE IF IsZipMagic(file.header)
         THEN /\ log' = Append(warned, Rec("INFO", "ZipHeaderDetected", <<>>))
              /\ pc' = "zip_open"
              /\ handler' = "zip"
         ELSE /\ log' = Append(warned, Rec("ERROR", "Unidentified", <<>>))
              /\ pc' = "done"
              /\ handler' = handler
    /\ UNCHANGED <<file, list_only, verbose, pre, outDirExists, fs, entries, i,
                   results, oleHandle, ret, raised>>

----------------------------------------------------------------------------
(* The file system *)

Paths(f) == {e[1] : e \in f}

Content(f, path) == (CHOOSE e \in f : e[1] = path)[2]

\* WriteFile with the file opened in append mode
WriteFile_append(f, path, d) ==
    {e \in f : e[1] # path}
    \cup {<<path, (IF path \in Paths(f) THEN Content(f, path) ELSE <<>>) \o d>>}

\* open(path, 'wb') then write(d): the file at path holds exactly d
WriteFile(f, path, d) == {e \in f : e[1] # path} \cup {<<path, d>>}

\* open(path, 'wb') raises IsADirectoryError: the path names a directory
IsDirectoryPath(path) == Basename(path) \in {<<>>, <<".">>, <<".", ".">>}

----------------------------------------------------------------------------
(* What the two extractors share *)

\* ZipSafeName without the sanitization
ZipSafeName_raw(filename) == filename

\* safe_filename = os.path.basename(filename)
ZipSafeName(filename) == Basename(filename)

\* safe_filename = os.path.basename(full_stream_path.replace('/', '_'))
OleSafeName(full) == Basename(Replace(full, Slash, "_"))

\* output_path = os.path.join(output_dir, safe_filename)
OutputPath(safe) == PathJoin(OutDir, safe)

\* full_stream_path = '/'.join(stream_name)
FullStreamPath(stream_name) == StrJoin(<<Slash>>, stream_name)

\* SkipExtraction with the flag ignored
SkipExtraction_ignored == FALSE

\* if list_only: continue
SkipExtraction == list_only

\* NextIndex skipping every other entry
NextIndex_skip(k) == k + 2

\* the for statement: the next position in the directory
NextIndex(k) == k + 1

\* InnerHandlerCatches as "except OSError" on the open alone
InnerHandlerCatches_narrow(outcome) == outcome = "open_fail"

\* except Exception as e (the handler inside the loop): what it catches
InnerHandlerCatches(outcome) == outcome \in {"read_fail", "open_fail", "io_fail"}

\* What opening output_path and copying the bytes can do: "open_fail" (the
\* entry or the target could not be opened: nothing on disk changes),
\* "io_fail" (the target was created, then the read or the write failed),
\* "ok".  A path that names a directory cannot be opened for writing.
WriteOutcomes(path) ==
    IF IsDirectoryPath(path) THEN {"open_fail"}
    ELSE {"ok", "open_fail", "io_fail"}

\* The numbers of bytes that can have reached the file when the copy ends
\* with this outcome: fewer than all of them on an "io_fail"
KeptLengths(d, outcome) ==
    IF outcome = "io_fail" /\ Len(d) > 0 THEN 0..(Len(d) - 1) ELSE {0}

\* The file system after one entry's write attempt; keep is the number of
\* bytes that reached the file before an "io_fail".
FsAfter(f, path, d, outcome, keep) ==
    CASE outcome = "ok"      -> WriteFile(f, path, d)
      [] outcome = "io_fail" -> WriteFile(f, path, SubSeq(d, 1, keep))
      [] OTHER               -> f

\* The records one entry's write attempt logs
LogAfter(l, name, path, outcome) ==
    IF outcome = "ok"
    THEN Append(l, <<"INFO", "Extracted", name, path>>)
    ELSE IF InnerHandlerCatches(outcome)
    THEN Append(l, <<"ERROR", "EntryError", name>>)
    ELSE Append(l, <<"ERROR", "ProcessError", <<>>>>)

----------------------------------------------------------------------------
(* extract_zip *)

\* with zipfile.ZipFile(filepath, 'r') as zip_ref: the central directory is
\* read here; BadZipFile and any other exception return False
ZipOpen ==
    /\ pc = "zip_open"
    /\ \E outcome \in {"ok", "badzip", "error"} :
         IF outcome = "ok"
         THEN /\ \E d \in ZipDirs : entries' = d
              /\ log' = Append(log, Rec("INFO", "ProcessingZip", <<>>))
              /\ pc' = "zip_loop"
              /\ ret' = ret
         ELSE /\ entries' = entries
              /\ log' = Append(log, Rec("ERROR",
                           IF outcome = "badzip" THEN "BadZip" ELSE "ProcessError",
                           <<>>))
              /\ pc' = "done"
              /\ ret' = "false"
    /\ i' = 1
    /\ UNCHANGED <<file, list_only, verbose, pre, outDirExists, fs, checks, handler,
                   results, oleHandle, raised>>

\* one iteration of: for file_info in zip_ref.infolist()
ZipEntry ==
    /\ pc = "zip_loop"
    /\ i <= Len(entries)
    /\ \E filename \in {entries[i].name}, file_size \in {entries[i].size},
          data \in {entries[i].data} :
       \E found \in {Append(log, <<"INFO", "Found", filename, file_size>>)} :
       IF SkipExtraction
       THEN /\ log' = found
            /\ results' = Append(results, [idx |-> i, res |-> "listed", path |-> <<>>])
            /\ i' = NextIndex(i)
            /\ UNCHANGED <<fs, pc, ret>>
       ELSE \E safe_filename \in {ZipSafeName(filename)} :
            \E output_path \in {OutputPath(safe_filename)} :
            \E outcome \in WriteOutcomes(output_path) :
            \E keep \in KeptLengths(data, outcome) :
            /\ fs' = FsAfter(fs, output_path, data, outcome, keep)
            /\ log' = LogAfter(found, filename, output_path, outcome)
            /\ results' = Append(results,
                                 [idx |-> i, res |-> outcome, path |-> output_path])
            /\ IF outcome = "ok" \/ InnerHandlerCatches(outcome)
               THEN /\ i' = NextIndex(i)
                    /\ UNCHANGED <<pc, ret>>
               ELSE /\ i' = i
                    /\ pc' = "done"
                    /\ ret' = "false"
    /\ UNCHANGED <<file, list_only, verbose, pre, outDirExists, checks, handler,
                   entries, oleHandle, raised>>

\* the loop is exhausted: return True
ZipReturn ==
    /\ pc = "zip_loop"
    /\ i > Len(entries)
    /\ pc' = "done"
    /\ ret' = "true"
    /\ UNCHANGED <<file, list_only, verbose, pre, outDirExists, fs, checks, handler,
                   entries, i, results, log, oleHandle, raised>>

----------------------------------------------------------------------------
(* extract_ole *)

\* if not olefile.isOleFile(filepath): log error, return False; an exception
\* goes to the function's handler, which returns False
OleCheck ==
    /\ pc = "ole_check"
    /\ \E outcome \in {"ok", "error"} :
         IF outcome = "ok" /\ IsOleFile(file.header)
         THEN /\ pc' = "ole_open"
              /\ UNCHANGED <<log, ret>>
         ELSE /\ pc' = "done"
              /\ ret' = "false"
              /\ log' = Append(log, Rec("ERROR",
                           IF outcome = "ok" THEN "NotOle" ELSE "ProcessError",
                           <<>>))
    /\ UNCHANGED <<file, list_only, verbose, pre, outDirExists, fs, checks, handler,
                   entries, i, results, oleHandle, raised>>

\* ole = olefile.OleFileIO(filepath)
OleOpen ==
    /\ pc = "ole_open"
    /\ \E outcome \in {"ok", "error"} :
         IF outcome = "ok"
         THEN /\ oleHandle' = "open"
              /\ log' = Append(log, Rec("INFO", "ProcessingOle", <<>>))
              /\ pc' = "ole_listdir"
              /\ ret' = ret
         ELSE /\ oleHandle' = oleHandle
              /\ log' = Append(log, Rec("ERROR", "ProcessError", <<>>))
              /\ pc' = "done"
              /\ ret' = "false"
    /\ UNCHANGED <<file, list_only, verbose, pre, outDirExists, fs, checks, handler,
                   entries, i, results, raised>>

\* ole.listdir(): the stream directory; an exception goes to the function's
\* handler, which returns False
OleListdir ==
    /\ pc = "ole_listdir"
    /\ \E outcome \in {"ok", "error"} :
         IF outcome = "ok"
         THEN /\ \E d \in OleDirs : entries' = d
              /\ pc' = "ole_loop"
              /\ UNCHANGED <<log, ret>>
         ELSE /\ entries' = entries
              /\ log' = Append(log, Rec("ERROR", "ProcessError", <<>>))
              /\ pc' = "done"
              /\ ret' = "false"
    /\ i' = 1
    /\ UNCHANGED <<file, list_only, verbose, pre, outDirExists, fs, checks, handler,
                   results, oleHandle, raised>>

\* one iteration of: for stream_name in ole.listdir()
OleEntry ==
    /\ pc = "ole_loop"
    /\ i <= Len(entries)
    /\ \E stream_name \in {entries[i].name}, data \in {entries[i].data} :
       IF stream_name = <<>>
       THEN \* if stream_name: an empty list is passed over
            /\ i' = NextIndex(i)
            /\ UNCHANGED <<fs, log, results, pc, ret>>
       ELSE \E full \in {FullStreamPath(stream_name)} :
            \E read \in {"ok", "read_fail"} :
            IF read = "read_fail"
            THEN \* ole.openstream(full_stream_path).read() raised
                 /\ log' = LogAfter(log, full, <<>>, read)
                 /\ results' = Append(results, [idx |-> i, res |-> read, path |-> <<>>])
                 /\ fs' = fs
                 /\ IF InnerHandlerCatches(read)
                    THEN /\ i' = NextIndex(i)
                         /\ UNCHANGED <<pc, ret>>
                    ELSE /\ i' = i
                         /\ pc' = "done"
                         /\ ret' = "false"
            ELSE \E found \in {Append(log, <<"INFO", "Found", full, Len(data)>>)} :
            IF SkipExtraction
            THEN /\ log' = found
                 /\ results' = Append(results, [idx |-> i, res |-> "listed", path |-> <<>>])
                 /\ i' = NextIndex(i)
                 /\ UNCHANGED <<fs, pc, ret>>
            ELSE \E safe_filename \in {OleSafeName(full)} :
                 \E output_path \in {OutputPath(safe_filename)} :
                 \E outcome \in WriteOutcomes(output_path) :
                 \E keep \in KeptLengths(data, outcome) :
                 /\ fs' = FsAfter(fs, output_path, data, outcome, keep)
                 /\ log' = LogAfter(found, full, output_path, outcome)
                 /\ results' = Append(results,
                                      [idx |-> i, res |-> outcome, path |-> output_path])
                 /\ IF outcome = "ok" \/ InnerHandlerCatches(outcome)
                    THEN /\ i' = NextIndex(i)
                         /\ UNCHANGED <<pc, ret>>
                    ELSE /\ i' = i
                         /\ pc' = "done"
                         /\ ret' = "false"
    /\ UNCHANGED <<file, list_only, verbose, pre, outDirExists, checks, handler,
                   entries, oleHandle, raised>>

\* the loop is exhausted: ole.close(), return True
OleClose ==
    /\ pc = "ole_loop"
    /\ i > Len(entries)
    /\ oleHandle' = "closed"
    /\ pc' = "done"
    /\ ret' = "true"
    /\ UNCHANGED <<file, list_only, verbose, pre, outDirExists, fs, checks, handler,
                   entries, i, results, log, raised>>

----------------------------------------------------------------------------
(* The run *)

Next ==
    \/ CheckExists
    \/ MkOutputDir
    \/ DetectZip
    \/ DetectOle
    \/ Probe
    \/ ZipOpen
    \/ ZipEntry
    \/ ZipReturn
    \/ OleCheck
    \/ OleOpen
    \/ OleListdir
    \/ OleEntry
    \/ OleClose

Spec == Init /\ [][Next]_vars

\* How far the run has come: every step of main and of the extractors moves
\* forward through the code, the loops by one entry per iteration.
Progress ==
    CASE pc = "start"                     -> 0
      [] pc = "mkdir"                     -> 1
      [] pc = "detect_zip"                -> 2
      [] pc = "detect_ole"                -> 3
      [] pc = "probe"                     -> 4
      [] pc \in {"zip_open", "ole_check"} -> 5
      [] pc = "ole_open"                  -> 6
      [] pc = "ole_listdir"               -> 7
      [] pc \in {"zip_loop", "ole_loop"}  -> 8 + i
      [] pc = "done"                      -> 10 + Len(entries)

----------------------------------------------------------------------------
(* Vocabulary of the properties *)

Indices == 1..Len(results)

\* the result records of entries whose target file was created or truncated
Touched == {k \in Indices : results[k].res \in {"ok", "io_fail"}}

Failed == {k \in Indices : results[k].res \in {"read_fail", "open_fail", "io_fail"}}

Count(kind) == Cardinality({k \in 1..Len(log) : log[k][2] = kind})

\* the entry's name as one path string
EntryName(k) ==
    IF handler = "ole" THEN FullStreamPath(entries[k].name) ELSE entries[k].name

HasSlash(s) == \E k \in 1..Len(s) : s[k] = Slash

\* the part of a path string after its last "/"
FinalSegment(s) ==
    LET cut == CHOOSE k \in 0..Len(s) :
                 /\ k = 0 \/ s[k] = Slash
                 /\ \A m \in (k + 1)..Len(s) : s[m] # Slash
    IN SubSeq(s, cut + 1, Len(s))

\* path is outputDir/<seg> for one real file name seg
DirectChild(path) ==
    LET n == Len(OutDir) + 1 IN
    /\ Len(path) > n
    /\ SubSeq(path, 1, n) = OutDir \o <<Slash>>
    /\ LET seg == SubSeq(path, n + 1, Len(path)) IN
       /\ ~HasSlash(seg)
       /\ seg \notin {<<".">>, <<".", ".">>}

Child(seg) == OutDir \o <<Slash>> \o seg

PasswdName ==
    <<".", ".", "/", ".", ".", "/", "e", "t", "c", "/", "p", "a", "s", "s", "w", "d">>

\* the existence check passed and the output directory exists: the run is
\* in, or past, format detection
DetectionEntered == Len(checks) >= 2

\* the format is Unknown: detection was entered and the run ended with no
\* check having chosen an extractor, whether every check answered no or a
\* check raised on the file
UnknownFormat == pc = "done" /\ handler = "none" /\ DetectionEntered

\* opening or parsing the container failed: inside a format check, which
\* raised on the file before any extractor was called, or inside the
\* extractor, which never obtained the container's directory
OpenFailed ==
    /\ pc = "done"
    /\ \/ raised /\ DetectionEntered
       \/ /\ handler # "none"
          /\ ~Logged("ProcessingZip")
          /\ oleHandle # "closed"

\* the spec's two-state machine, read off the position of the run
Phase ==
    CASE pc \in {"zip_open", "ole_check", "ole_open", "ole_listdir"} -> "Scanning"
      [] pc \in {"zip_loop", "ole_loop"} ->
            IF list_only THEN "Scanning" ELSE "Extracting"
      [] pc = "done" -> IF ret = "true" THEN "Done" ELSE "Failed"
      [] OTHER -> "Detecting"

----------------------------------------------------------------------------
(* C1 *)

\* C1 as stated: every file a run writes is a direct child of outputDir
\* named by the final path segment of the entry name, for ZIP and OLE alike
\* (stated here for the names whose final segment is not empty).
C1_WrittenFileIsFinalSegment ==
    \A k \in Touched :
        FinalSegment(EntryName(results[k].idx)) # <<>> =>
            /\ DirectChild(results[k].path)
            /\ results[k].path = Child(FinalSegment(EntryName(results[k].idx)))

\* C1 (amended): every file a run writes is a direct child of outputDir; a
\* ZIP entry is written under the final path segment of its name, an OLE
\* stream under its full path with every "/" replaced by "_"; nothing is
\* written outside outputDir or in a subdirectory of it.
C1_WrittenFileIsFlatChild ==
    /\ \A k \in Touched :
        /\ DirectChild(results[k].path)
        /\ results[k].path =
             Child(IF handler = "ole"
                   THEN Replace(EntryName(results[k].idx), Slash, "_")
                   ELSE FinalSegment(EntryName(results[k].idx)))
    /\ \A q \in Paths(fs) :
        /\ DirectChild(q)
        /\ q \in Paths(pre.fs) \/ \E k \in Touched : results[k].path = q

\* ../../etc/passwd was extracted to outputDir/passwd
C1_Witness ==
    \E k \in Indices :
        /\ handler = "zip"
        /\ entries[results[k].idx].name = PasswdName
        /\ results[k].res = "ok"
        /\ <<Child(<<"p", "a", "s", "s", "w", "d">>), entries[results[k].idx].data>> \in fs

----------------------------------------------------------------------------
(* C2 *)

\* C2: a read or write failure on one entry is logged, the entry is not
\* reported as extracted, the loop goes on to every later entry and the
\* extractor still returns True.
C2_EntryFailureNonFatal ==
    Failed # {} =>
        /\ Count("EntryError") = Cardinality(Failed)
        /\ Count("Extracted") = Cardinality({k \in Indices : results[k].res = "ok"})
        /\ \/ pc \in {"zip_loop", "ole_loop"} /\ i = Len(results) + 1
           \/ pc = "done" /\ ret = "true" /\ Len(results) = Len(entries)

\* the first entry failed, the second was extracted, the run returned True
C2_Witness ==
    /\ pc = "done"
    /\ ret = "true"
    /\ Len(results) = 2
    /\ results[1].res = "io_fail"
    /\ results[2].res = "ok"

----------------------------------------------------------------------------
(* C3 *)

\* C3: on an Unknown format, or when opening or parsing the container
\* fails, the run logs an error, returns false and processes no entries:
\* nothing is listed and no file is written.
C3_FatalReturnsFalse ==
    (UnknownFormat \/ OpenFailed) =>
        /\ ErrorLogged
        /\ ret = "false"
        /\ results = <<>>
        /\ ~Logged("Found")
        /\ fs = pre.fs

----------------------------------------------------------------------------
(* C4 *)

\* C4: with list_only the run lists the entries and writes nothing: the
\* files on disk stay those present before the run.
C4_ListOnlyWritesNothing ==
    list_only =>
        /\ fs = pre.fs
        /\ \A k \in Indices : results[k].res \in {"listed", "read_fail"}
        /\ Count("Extracted") = 0
        /\ Count("Found") = Cardinality({k \in Indices : results[k].res = "listed"})
        /\ (pc = "done" /\ ret = "true") => Len(results) = Len(entries)

\* a list-only run over two entries ended with the earlier file untouched
C4_Witness ==
    /\ list_only
    /\ pc = "done"
    /\ ret = "true"
    /\ Count("Found") = 2
    /\ fs # {}

----------------------------------------------------------------------------
(* C5 *)

\* C5 as stated: after the run, the file written for each successfully
\* extracted entry holds that entry's bytes, also when names collide
\* (stated here for the runs in which no entry failed).
C5_RoundTripEveryEntry ==
    (pc = "done" /\ Failed = {}) =>
        \A k \in Indices :
            results[k].res = "ok" =>
                <<results[k].path, entries[results[k].idx].data>> \in fs

\* C5 (amended): the file written for a successfully extracted entry holds
\* exactly that entry's bytes as long as no later entry in listing order is
\* written to the same output path; of entries sharing an output path the
\* file holds the last one written.
C5_RoundTripLastWriter ==
    \A k \in Indices :
        (/\ results[k].res = "ok"
         /\ \A m \in Touched : m > k => results[m].path # results[k].path)
        => /\ <<results[k].path, entries[results[k].idx].data>> \in fs
           /\ Cardinality({e \in fs : e[1] = results[k].path}) = 1

\* two entries with different bytes were both extracted to one path
C5_Witness ==
    /\ pc = "done"
    /\ Len(results) = 2
    /\ results[1].res = "ok"
    /\ results[2].res = "ok"
    /\ results[1].path = results[2].path
    /\ entries[1].data # entries[2].data
    /\ <<results[2].path, entries[2].data>> \in fs

----------------------------------------------------------------------------
(* C6 *)

\* C6: an OLE stream whose name has an empty component is never listed and
\* never extracted.
C6_EmptySegmentNeverListed ==
    handler = "ole" =>
        \A k \in Indices :
            results[k].res # "read_fail" =>
                \A c \in 1..Len(entries[results[k].idx].name) :
                    entries[results[k].idx].name[c] # <<>>

----------------------------------------------------------------------------
(* C7 *)

\* C7: the ZIP check comes first, the OLE check only after the ZIP check
\* failed, the 4-byte probe only after both failed; the extractor chosen is
\* a function of the file, and a file passing both checks goes to ZIP.
C7_DetectionPrecedence ==
    /\ \A k \in 1..Len(checks) : checks[k] = <<"exists", "zip", "ole", "probe">>[k]
    /\ Len(checks) <= 4
    /\ Len(checks) >= 3 => ~file.isZip
    /\ Len(checks) = 4 => ~IsOleFile(file.header)
    /\ handler # "none" =>
         handler = (IF file.isZip THEN "zip"
                    ELSE IF IsOleFile(file.header) THEN "ole" ELSE "zip")
    /\ (file.isZip /\ pc \notin {"start", "mkdir", "detect_zip"} /\ ~raised)
         => handler = "zip"

\* a file passing both checks was processed as ZIP
C7_Witness ==
    /\ file.isZip
    /\ IsOleFile(file.header)
    /\ handler = "zip"
    /\ pc = "done"
    /\ ret = "true"

----------------------------------------------------------------------------
(* C8 *)

\* C8: when the input path does not exist the run logs NotFound and does
\* nothing else: no output directory, no format check, no entry, no file.
\* With -v the "Verbose mode enabled" record of line 102 comes before the
\* check; NotFound is the last record and the only one the check adds.
\* A run whose existence check raises ends without the NotFound record.
C8_NotFoundDoesNothing ==
    ~file.exists =>
        /\ pc \in {"start", "done"}
        /\ outDirExists = pre.dir
        /\ fs = pre.fs
        /\ handler = "none"
        /\ entries = <<>>
        /\ results = <<>>
        /\ ret = "none"
        /\ pc = "done" =>
             /\ log = (IF verbose THEN <<Rec("DEBUG", "Verbose", <<>>)>> ELSE <<>>)
                      \o <<Rec("ERROR", "NotFound", <<>>)>>
             /\ checks = <<"exists">>

----------------------------------------------------------------------------
(* C9 *)

\* C9: the run never returns to Scanning once Extracting; the entries are
\* processed once each, in listing order; every run ends, Done or Failed:
\* a run that has not ended can take a step, every step moves it forward,
\* and it can move forward only a bounded number of times.
C9_OnePass ==
    /\ [][Phase = "Extracting" => Phase' \in {"Extracting", "Done", "Failed"}]_vars
    /\ [](\A k \in Indices : results[k].idx = k)
    /\ []((pc = "done" /\ ret = "true") => Len(results) = Len(entries))
    /\ [](Phase \notin {"Done", "Failed"} => ENABLED Next)
    /\ [][Progress' > Progress]_vars
    /\ [](Progress <= 10 + MaxEntries)
    /\ [][(Phase \in {"Done", "Failed"}) => (vars' = vars)]_vars

\* an extraction run over two entries ended Done
C9_Witness ==
    /\ Phase = "Done"
    /\ ~list_only
    /\ Len(results) = 2
    /\ results[2].res = "ok"

----------------------------------------------------------------------------
(* C10 *)

\* C10: once OleFileIO succeeded, the handle is closed by the time
\* extract_ole has returned, on every path.
C10_HandleClosedOnReturn ==
    (pc = "done" /\ oleHandle # "none") => oleHandle = "closed"

====
